---- MODULE Spec2Model ----
(***************************************************************************)
(* Release resolution client of the bodsch.scm collection:                 *)
(*   plugins/module_utils/github.py         (class GitHub)                 *)
(*   plugins/module_utils/github_cache.py   (class GitHubCache)            *)
(*   plugins/module_utils/release_finder.py (class ReleaseFinder)          *)
(*                                                                         *)
(* Five specifications share the module:                                   *)
(*   Spec        one GitHub client talking to one server: every HTTP       *)
(*               exchange of _get_request is a step, the caller's code     *)
(*               after the last exchange is part of that step;             *)
(*   FinderSpec  one ReleaseFinder over a bounded list of release dicts;   *)
(*   CacheSpec   one GitHubCache whose files are written, damaged and read *)
(*               while the clock advances;                                 *)
(*   ClientSpec  the client with its cache enabled, its calls repeated     *)
(*               while the clock advances;                                 *)
(*   AssetSpec   the client looking for the checksum asset of a tag.       *)
(*                                                                         *)
(* Python values: a str is a TLA+ string (read character by character with *)
(* SubSeq), a JSON/dict value is wrapped as S(text) or None so that a      *)
(* string and None can be told apart, a dict is a function whose DOMAIN    *)
(* is the set of keys that are present.                                    *)
(***************************************************************************)
EXTENDS Integers, Sequences, FiniteSets, TLC

VARIABLES
    \* ---- the server (environment of GitHub._get_request)
    repo,           \* the releases the API lists, newest first (raw JSON objects)
    pageSize,       \* the server's page-size ceiling
    \* ---- GitHub / GitHubCache
    gh_cache,       \* self.gh_cache: set by enable_cache(), missing before
    cache,          \* the cache directory: filename -> Absent or a file
    clock,          \* wall clock, in ticks (TicksPerMinute)
    \* ---- the running public call and the _get_request frame under it
    pc,             \* "idle" | "fetch" | "done"
    op,             \* the public method that is running
    count,          \* get_releases' count argument
    url,            \* _get_request's url: the page cursor
    params,         \* _get_request's params: per_page, or 0 for None
    result,         \* _get_request's result list
    retries,        \* urllib3 Retry.total left for the current session.get
    attempt,        \* requests sent for the current url
    sent,           \* requests sent by the running call
    clean,          \* every response of the running call was the served page
    resp,           \* the last response received
    now,            \* time.time() as read when a rate limit was met, seconds
    tret,           \* what _get_request returned (or that it raised)
    ret,            \* what the public method returned (or that it raised)
    asset_tag,      \* the tag argument of _release_assets / get_checksum_asset
    target,         \* self.system and self.architecture, once architecture() set them
    prev,           \* history: the call that returned last
    before,         \* history: the cache directory when the running call began
    args,           \* history: the arguments of the last download_checksum or
                    \* checksum call, and the body that was downloaded
    \* ---- ReleaseFinder
    releases,           \* self.releases
    exclude_patterns,   \* self.exclude_patterns
    given,              \* history: the keywords of the last set_exclude_keywords
                        \* call, and whether it replaced other keywords
    call,               \* the last find_latest call: mode, input, outcome
    \* ---- GitHubCache used on its own
    read                \* the last cached_data call: the file before and
                        \* after it, the time, the outcome

vars == <<repo, pageSize, gh_cache, cache, clock, pc, op, count, url, params,
          result, retries, attempt, sent, clean, resp, now, tret, ret,
          asset_tag, target, prev, before, args,
          releases, exclude_patterns, given, call, read>>

serverVars == <<repo, pageSize>>
clientVars == <<gh_cache, cache, clock, pc, op, count, url, params, result,
                retries, attempt, sent, clean, resp, now, tret, ret>>
finderVars == <<releases, exclude_patterns, given, call>>
assetVars == <<asset_tag, target, prev, before, args>>

-----------------------------------------------------------------------------
(* Bounds of the model *)

MaxRepo == 3        \* releases the server holds, at most
MaxPageSize == 2    \* the server's page-size ceiling, at most
MaxReleases == 2    \* length of the list handed to ReleaseFinder, at most

\* readings of time.time() and values of X-RateLimit-Reset, seconds
Epochs == {0, 3}

(* Program constants *)

RetryTotal == 3         \* Retry(total=3)
PerPageMax == 100       \* min(count, 100), {"per_page": 100}
RequestFailed == 419    \* return (419, [], error)
TooManyRequests == 429  \* return (429, [], error)
DefaultCacheMinutes == 60   \* enable_cache(cache_minutes=60)

status_forcelist == {429, 500, 502, 503, 504}

-----------------------------------------------------------------------------
(* Python values *)

S(text) == [t |-> "str", s |-> text]
None == [t |-> "none", s |-> ""]

\* dict.get(key, default)
Get(d, key, default) == IF key \in DOMAIN d THEN d[key] ELSE default

\* Python truthiness of a str-or-None value
Truthy(v) == v.t = "str" /\ v.s # ""

Min(a, b) == IF a < b THEN a ELSE b
Max(a, b) == IF a > b THEN a ELSE b

-----------------------------------------------------------------------------
(* Python str, read character by character *)

Ch(s, i) == IF 1 <= i /\ i <= Len(s) THEN SubSeq(s, i, i) ELSE ""

DigitChars == {"0", "1", "2", "3", "4", "5", "6", "7", "8", "9"}
IsDigit(c) == c \in DigitChars
DigitVal(c) ==
    CASE c = "0" -> 0 [] c = "1" -> 1 [] c = "2" -> 2 [] c = "3" -> 3 [] c = "4" -> 4
      [] c = "5" -> 5 [] c = "6" -> 6 [] c = "7" -> 7 [] c = "8" -> 8 [] c = "9" -> 9

\* str.lower(), on the letters the texts use
LowerCh(c) ==
    CASE c = "A" -> "a" [] c = "B" -> "b" [] c = "C" -> "c" [] c = "E" -> "e"
      [] c = "N" -> "n" [] c = "R" -> "r" [] c = "S" -> "s" [] c = "T" -> "t"
      [] c = "V" -> "v" [] c = "Z" -> "z" [] OTHER -> c

RECURSIVE Lower(_)
Lower(s) == IF s = "" THEN "" ELSE LowerCh(Ch(s, 1)) \o Lower(Tail(s))

IsLetter(c) ==
    c \in {"a", "b", "c", "d", "e", "f", "g", "h", "i", "j", "k", "l", "m", "n", "o",
           "p", "q", "r", "s", "t", "u", "v", "w", "x", "y", "z"}
IsAlnum(c) == IsDigit(c) \/ IsLetter(c)
IsSpace(c) == c \in {" ", "\t"}

\* sub in s
Contains(s, sub) ==
    \E i \in 1 .. Len(s) + 1 :
        i + Len(sub) - 1 <= Len(s) /\ SubSeq(s, i, i + Len(sub) - 1) = sub

\* s.startswith(sub, i - 1)
StartsAt(s, i, sub) ==
    i + Len(sub) - 1 <= Len(s) /\ SubSeq(s, i, i + Len(sub) - 1) = sub

\* int(s) of a text of digits
RECURSIVE ToNat(_)
ToNat(s) ==
    IF s = "" THEN 0
    ELSE 10 * ToNat(SubSeq(s, 1, Len(s) - 1)) + DigitVal(Ch(s, Len(s)))

\* The end of the longest run of digits / of letters and digits / of white
\* space that starts at i: the first position after it.
RECURSIVE DigitsEnd(_, _)
DigitsEnd(s, i) == IF IsDigit(Ch(s, i)) THEN DigitsEnd(s, i + 1) ELSE i
RECURSIVE AlnumEnd(_, _)
AlnumEnd(s, i) == IF IsAlnum(Ch(s, i)) THEN AlnumEnd(s, i + 1) ELSE i
RECURSIVE SpaceEnd(_, _)
SpaceEnd(s, i) == IF IsSpace(Ch(s, i)) THEN SpaceEnd(s, i + 1) ELSE i

AllDigits(s, i, n) == \A k \in i .. i + n - 1 : IsDigit(Ch(s, k))
Num(s, i, n) == ToNat(SubSeq(s, i, i + n - 1))

\* Python's tuple order on tuples of ints
RECURSIVE SeqLess(_, _)
SeqLess(a, b) ==
    IF b = << >> THEN FALSE
    ELSE IF a = << >> THEN TRUE
    ELSE IF a[1] = b[1] THEN SeqLess(Tail(a), Tail(b))
    ELSE a[1] < b[1]


-----------------------------------------------------------------------------
(* The server: GET /repos/{owner}/{repo}/releases *)

Asset(n, u) == [name |-> S(n), browser_download_url |-> u, size |-> 1]

\* The JSON objects of the API, oldest first. The API's name may be a text,
\* empty, null or missing; tag_name identifies the release.
AllReleases ==
    << [name |-> S("12.0.2"), tag_name |-> S("v12.0.2"),
       published_at |-> S("2025-06-17T21:41:45Z"), html_url |-> S("h1"),
       assets |-> <<Asset("a.tar.gz", S("d1")), Asset("a.sha256", None)>>],
       [name |-> None, tag_name |-> S("v11.6.3"),
       published_at |-> S("2025-06-17T21:58:59Z"), html_url |-> S("h2"),
       assets |-> <<Asset("b.tar.gz", S("d2"))>>],
       [name |-> S(""), tag_name |-> S("v11.5.6"),
       published_at |-> S("2025-06-17T22:00:40Z"), html_url |-> S("h3"),
       assets |-> << >>],
       [tag_name |-> S("v11.4.6"),
       published_at |-> None, html_url |-> S("h4")] >>

\* The listings a server may hold: some of these releases, in the API's order.
RECURSIVE Pick(_, _)
Pick(xs, keep) ==
    IF xs = << >> THEN << >>
    ELSE (IF Len(xs) \in keep THEN <<xs[Len(xs)]>> ELSE << >>)
         \o Pick(SubSeq(xs, 1, Len(xs) - 1), keep)

Listings ==
    {Pick(AllReleases, keep) : keep \in {k \in SUBSET (1 .. Len(AllReleases)) :
                                             Cardinality(k) <= MaxRepo}}

NoUrl == [page |-> 0, per_page |-> 0]
FirstUrl == [page |-> 1, per_page |-> 0]

\* The page size the server uses: the per_page of the query (params on the first
\* request, the cursor's own afterwards), capped by the server's ceiling.
EffectivePerPage(u, prm) ==
    LET asked == IF prm # 0 THEN prm ELSE u.per_page
    IN  IF asked = 0 THEN pageSize ELSE Min(asked, pageSize)

LastPage(p) == IF Len(repo) = 0 THEN 1 ELSE (Len(repo) + p - 1) \div p

PageItems(k, p) == SubSeq(repo, (k - 1) * p + 1, Min(k * p, Len(repo)))

\* The Link header of page k: prev, next, last, first, as the API orders them.
LinkHeader(k, p) ==
    (IF k > 1 THEN <<[target |-> [page |-> k - 1, per_page |-> p], rel |-> "prev"]>>
              ELSE << >>)
    \o (IF k < LastPage(p)
        THEN <<[target |-> [page |-> k + 1, per_page |-> p], rel |-> "next"],
               [target |-> [page |-> LastPage(p), per_page |-> p], rel |-> "last"]>>
        ELSE << >>)
    \o (IF k > 1 THEN <<[target |-> [page |-> 1, per_page |-> p], rel |-> "first"]>>
                 ELSE << >>)

Response(io, status, remaining, reset, body, items, link) ==
    [io |-> io, status |-> status, remaining |-> remaining, reset |-> reset,
     body |-> body, items |-> items, link |-> link]

NoResponse == Response("none", 0, -1, -1, "none", << >>, << >>)

\* No tag: the request goes to the listing.
NoTag == "none"

\* GET /repos/{owner}/{repo}/releases/tags/{tag}: the release object of the
\* tag, or 404.
ServedRelease(tg) ==
    LET at == {i \in 1 .. Len(repo) : Get(repo[i], "tag_name", None) = S(tg)}
    IN  IF at = {} THEN Response("ok", 404, -1, -1, "json", << >>, << >>)
        ELSE Response("ok", 200, -1, -1, "json",
                      <<repo[CHOOSE i \in at : \A j \in at : i <= j]>>, << >>)

ServedListing(u, p) ==
    Response("ok", 200, -1, -1, "json", PageItems(u.page, p), LinkHeader(u.page, p))

\* The page the server serves for a request.
ServedPage(u, prm) ==
    IF asset_tag # NoTag THEN ServedRelease(asset_tag)
    ELSE ServedListing(u, EffectivePerPage(u, prm))

\* The error statuses the server answers with: two of status_forcelist, and one
\* that is not retried.
ErrorStatuses == {429, 500, 404}

\* Everything the server, or the network, may answer to one request.
\* remaining / reset: the X-RateLimit-Remaining / X-RateLimit-Reset headers, -1
\* when the header is absent.
ServerResponses(u, prm) ==
    {ServedPage(u, prm)}
    \cup {Response("ok", 200, -1, -1, "malformed", << >>, << >>)}
    \cup {Response("ok", st, -1, -1, "json", << >>, << >>) : st \in ErrorStatuses}
    \cup {Response("ok", 403, rem, -1, "json", << >>, << >>) : rem \in {-1, 1}}
    \cup {Response("ok", 403, 0, rst, "json", << >>, << >>) : rst \in {-1} \cup Epochs}
    \cup {Response("error", 0, -1, -1, "none", << >>, << >>)}

-----------------------------------------------------------------------------
(* GitHubCache *)

CacheFiles == {"releases.json", "release_artefacts.json"}

\* A file of the cache directory: when it was written (in ticks of the
\* clock), what text it holds ("json": what json.dump wrote; "malformed": text
\* that is no JSON; "undecodable": bytes that are no UTF-8, as a write cut
\* inside a multi-byte character leaves them), and the data json.load gives
\* for it.
File(mtime, text, data) == [mtime |-> mtime, text |-> text, data |-> data]
Absent == File(-1, "none", << >>)
NoCache == [set |-> FALSE, cache_minutes |-> 0]

Exists(f) == cache[f] # Absent

\* The clock ticks twice a minute
TicksPerMinute == 2

\* cache_valid(module, path, cache_minutes, True) of bodsch.core: the file is out
\* of date when it is missing or its age in minutes is greater than
\* cache_minutes; an outdated file is removed.
cache_valid(f) ==
    ~Exists(f) \/ clock - cache[f].mtime > gh_cache.cache_minutes * TicksPerMinute

Hit(data) == [kind |-> "hit", data |-> data]
Miss == [kind |-> "miss", data |-> << >>]
ReadRaised == [kind |-> "raised", data |-> << >>]

cached_data_Inverted(f) ==
    IF cache_valid(f) /\ Exists(f)
    THEN (IF cache[f].text = "json" THEN Hit(cache[f].data)
          ELSE IF cache[f].text = "malformed" THEN Miss
          ELSE ReadRaised)
    ELSE Miss

\* GitHubCache.cached_data: the payload, or None (a miss); json.load's
\* JSONDecodeError is caught, the UnicodeDecodeError of the file's read is
\* neither a JSONDecodeError nor an OSError and leaves the method.
cached_data(f) ==
    IF ~cache_valid(f) /\ Exists(f)
    THEN (IF cache[f].text = "json" THEN Hit(cache[f].data)
          ELSE IF cache[f].text = "malformed" THEN Miss
          ELSE ReadRaised)
    ELSE Miss

\* The cache directory after cached_data(f): cache_valid has removed an
\* outdated file, the except branch a file that is no JSON.
CacheAfterRead(f) ==
    IF Exists(f) /\ (cache_valid(f) \/ cache[f].text = "malformed")
    THEN [cache EXCEPT ![f] = Absent]
    ELSE cache

\* GitHubCache.write_cache, on the directory c.
write_cache(c, f, data) == [c EXCEPT ![f] = File(clock, "json", data)]

-----------------------------------------------------------------------------
(* GitHub._get_request *)

NoError == [kind |-> "None", wait |-> 0]
RateLimitError(w) == [kind |-> "Rate limit exceeded. Retry in", wait |-> w]
RequestError == [kind |-> "Request failed", wait |-> 0]
JSONError == [kind |-> "Error parsing the JSON", wait |-> 0]

Triple(st, payload, err) ==
    [kind |-> "returned", status |-> st, payload |-> payload, error |-> err]
Raised(exc) ==
    [kind |-> "raised", status |-> 0, payload |-> << >>, error |-> [kind |-> exc, wait |-> 0]]
NoReturn == [kind |-> "none", status |-> 0, payload |-> << >>, error |-> NoError]

\* The classes of the exceptions the try block can meet.
HTTPError == {"RequestException"}            \* response.raise_for_status()
RetryError == {"RequestException"}           \* urllib3 gave up on a status
ConnectionError == {"RequestException"}      \* urllib3 gave up on the connection
\* response.json() on a malformed body: a ValueError, and with requests >= 2.27
\* a RequestException as well.
JSONDecodeErrors == {{"ValueError"}, {"RequestException", "ValueError"}}

Catch_OnlyRequestException(exc) ==
    IF "RequestException" \in exc THEN Triple(RequestFailed, << >>, RequestError)
    ELSE Raised("Exception")

Catch_AsRateLimit(exc) == Triple(TooManyRequests, << >>, RequestError)

\* The except clauses, in order.
Catch(exc) ==
    IF "RequestException" \in exc THEN Triple(RequestFailed, << >>, RequestError)
    ELSE IF "ValueError" \in exc THEN Triple(RequestFailed, << >>, JSONError)
    ELSE Raised("Exception")

NextUrl_LastRel(link) ==
    LET nx == {i \in 1 .. Len(link) : link[i].rel = "last"}
    IN  IF nx = {} THEN NoUrl
        ELSE link[CHOOSE i \in nx : \A j \in nx : i <= j].target

\* The Link header's first entry with rel="next", or no url.
NextUrl(link) ==
    LET nx == {i \in 1 .. Len(link) : link[i].rel = "next"}
    IN  IF nx = {} THEN NoUrl
        ELSE link[CHOOSE i \in nx : \A j \in nx : i <= j].target

IsRetry_Forbidden(r) == r.io = "error" \/ r.status \in status_forcelist \cup {403}

\* urllib3's Retry: a response is retried when the connection failed or its
\* status is in status_forcelist.
IsRetry(r) == r.io = "error" \/ r.status \in status_forcelist

IsExhausted_AtZero(total) == total <= 0

\* Retry.increment(): one retry less; exhausted once the total is below zero.
Increment(total) == total - 1
IsExhausted(total) == total < 0

\* One exchange of the loop: the response r arrives for the request just sent,
\* t is time.time(), jx the class of a JSON decoding error. The outcome is to
\* send the same request again (retry), to go on with the next page (next), or
\* to leave _get_request (a Triple, or Raised).
Stay(k, u, res) == [k |-> k, url |-> u, result |-> res, out |-> NoReturn]

Leave_Partial(out) ==
    [k |-> "leave", url |-> NoUrl, result |-> << >>,
     out |-> [out EXCEPT !.payload = result]]

Leave(out) == [k |-> "leave", url |-> NoUrl, result |-> << >>, out |-> out]

GetRequestStep(r, t, jx, paginate) ==
    IF IsRetry(r)
    THEN IF IsExhausted(Increment(retries))
         THEN Leave(Catch(IF r.io = "error" THEN ConnectionError ELSE RetryError))
         ELSE Stay("retry", url, result)
    ELSE IF r.status = 403 /\ r.remaining # -1 /\ r.remaining = 0
    THEN LET reset_time == IF r.reset = -1 THEN 0 ELSE r.reset
             wait_seconds == Max(reset_time - t, 1)
         IN  Leave(Triple(TooManyRequests, << >>, RateLimitError(wait_seconds)))
    ELSE IF r.status >= 400
    THEN Leave(Catch(HTTPError))
    ELSE IF r.body = "malformed"
    THEN Leave(Catch(jx))
    ELSE LET res == result \o r.items
             next_url == NextUrl(r.link)
         IN  IF ~paginate THEN Leave(Triple(200, res, NoError))
             ELSE IF next_url # NoUrl THEN Stay("next", next_url, res)
             ELSE Leave(Triple(200, res, NoError))

-----------------------------------------------------------------------------
(* GitHub: get_releases, get_all_releases *)

Ops == {"get_releases", "get_all_releases"}

\* count arguments tried: small ones and the page-size ceiling of the client
Counts == {1, 2, PerPageMax}

\* self.cache_file or "releases.json" (enable_cache is called without a
\* cache_file), get_all_releases' fixed name, and _release_assets' name
\* for the tag
CacheFile(o, tg) ==
    IF o = "get_releases" THEN "releases.json"
    ELSE IF o = "get_all_releases" THEN "release_artefacts.json"
    ELSE "release_artefacts_" \o tg \o ".json"

\* params of the first request
PerPage(o, c) ==
    IF o = "get_releases" THEN Min(c, PerPageMax)
    ELSE IF o = "get_all_releases" THEN PerPageMax
    ELSE 0

\* paginate=True in both callers
Paginate(o) == TRUE

\* Python's [f(x) for x in xs]
RECURSIVE MapSeq(_, _)
MapSeq(F(_), xs) == IF xs = << >> THEN << >> ELSE <<F(Head(xs))>> \o MapSeq(F, Tail(xs))

NormalizeRelease_Backfill(r) ==
    [name |-> IF Truthy(Get(r, "name", None)) THEN r["name"] ELSE Get(r, "tag_name", S("N/A")),
     tag_name |-> Get(r, "tag_name", S("N/A")),
     published_at |-> Get(r, "published_at", S("N/A")),
     url |-> Get(r, "html_url", S("N/A"))]

\* get_releases: the dict built for one API object
NormalizeRelease(r) ==
    [name |-> Get(r, "name", S("N/A")),
     tag_name |-> Get(r, "tag_name", S("N/A")),
     published_at |-> Get(r, "published_at", S("N/A")),
     url |-> Get(r, "html_url", S("N/A"))]

HasDownloadUrl(x) == Truthy(Get(x, "browser_download_url", None))
DownloadUrl(x) == Get(x, "browser_download_url", None)

\* get_all_releases: the dict built for one API object
FilteredRelease(r) ==
    [name |-> Get(r, "name", S("N/A")),
     tag_name |-> Get(r, "tag_name", S("N/A")),
     published_at |-> Get(r, "published_at", S("N/A")),
     url |-> Get(r, "html_url", S("N/A")),
     download_urls |-> MapSeq(DownloadUrl, SelectSeq(Get(r, "assets", << >>), HasDownloadUrl))]

\* _release_assets: the dict built for one asset
AssetEntry(asset) ==
    [name |-> Get(asset, "name", None),
     url |-> Get(asset, "browser_download_url", None),
     size |-> Get(asset, "size", None)]

Normalized(o, rs) ==
    IF o = "get_releases" THEN MapSeq(NormalizeRelease, rs)
    ELSE IF o = "get_all_releases" THEN MapSeq(FilteredRelease, rs)
    ELSE MapSeq(AssetEntry, Get(rs[1], "assets", << >>))

AfterFetch_MaskFailure(o, out) ==
    IF out.kind = "raised" THEN out
    ELSE IF out.status # 200 THEN Triple(200, << >>, NoError)
    ELSE Triple(out.status, Normalized(o, out.payload), NoError)

\* The caller's code after _get_request has returned out: what it returns ...
AfterFetch(o, out) ==
    IF out.kind = "raised" THEN out
    ELSE IF out.status # 200 THEN Triple(out.status, << >>, out.error)
    ELSE Triple(out.status, Normalized(o, out.payload), NoError)

CacheAfterFetch_NoWrite(o, out) == cache

CacheAfterFetch_Negative(o, out) ==
    IF out.kind = "returned"
    THEN write_cache(cache, CacheFile(o, asset_tag),
                     IF out.status = 200 THEN Normalized(o, out.payload) ELSE << >>)
    ELSE cache

\* ... and what it leaves in the cache directory.
CacheAfterFetch(o, out) ==
    IF out.kind = "returned" /\ out.status = 200
    THEN write_cache(cache, CacheFile(o, asset_tag), Normalized(o, out.payload))
    ELSE cache

-----------------------------------------------------------------------------
(* GitHub: architecture, get_checksum_asset *)

\* Before architecture() is called self.system does not exist (and
\* self.architecture is the method itself).
NoTarget == [set |-> FALSE, system |-> "", architecture |-> ""]
Target(system, architecture) ==
    [set |-> TRUE, system |-> system, architecture |-> architecture]

checksum_keywords == <<"sha256", "sha512", "checksum", "sum">>

\* any(kw in name_lower for kw in keywords)
AnyKeyword(name_lower) ==
    \E k \in 1 .. Len(checksum_keywords) : Contains(name_lower, checksum_keywords[k])

\* str.lstrip(chars) for one character
RECURSIVE LStrip(_, _)
LStrip(s, c) == IF Ch(s, 1) = c THEN LStrip(Tail(s), c) ELSE s

\* What get_checksum_asset returns: an asset dict or None.
Answer(v) == [kind |-> "returned", value |-> v]

\* One pass of the loop over an asset whose lower-cased name is name_lower:
\* the first test, then the second one, read left to right.
Examine(name_lower, normalized_tag) ==
    IF AnyKeyword(name_lower) THEN "return"
    ELSE IF ~Contains(name_lower, normalized_tag) THEN "continue"
    ELSE IF ~target.set THEN "AttributeError"
    ELSE IF /\ Contains(name_lower, target.system)
            /\ Contains(name_lower, target.architecture)
            /\ AnyKeyword(name_lower)
    THEN "return"
    ELSE "continue"

RECURSIVE ScanAssets(_, _, _)
ScanNext(assets, i, normalized_tag, verdict) ==
    IF verdict = "return" THEN Answer(assets[i])
    ELSE IF verdict = "continue" THEN ScanAssets(assets, i + 1, normalized_tag)
    ELSE Raised(verdict)

\* for asset in releases: ...; return None
ScanAssets(assets, i, normalized_tag) ==
    IF i > Len(assets) THEN Answer(None)
    ELSE IF assets[i].name.t # "str" THEN Raised("AttributeError")
    ELSE ScanNext(assets, i, normalized_tag,
                  Examine(Lower(assets[i].name.s), normalized_tag))

\* get_checksum_asset(tg), given what _release_assets(tg) gave.
get_checksum_asset(got, tg) ==
    IF got.kind = "raised" THEN got
    ELSE IF got.status # 200 THEN Answer(None)
    ELSE ScanAssets(got.payload, 1, Lower(LStrip(tg, "v")))

\* What the public method o returns, given what its cache-or-fetch part gave.
Outcome(o, tg, got) ==
    IF o = "get_checksum_asset" THEN get_checksum_asset(got, tg) ELSE got

-----------------------------------------------------------------------------
(* Spec: the client and the server *)

FrameInit ==
    /\ pc = "idle"
    /\ op = "none"
    /\ count = 0
    /\ url = NoUrl
    /\ params = 0
    /\ result = << >>
    /\ retries = 0
    /\ attempt = 0
    /\ sent = 0
    /\ clean = TRUE
    /\ resp = NoResponse
    /\ now = 0
    /\ tret = NoReturn
    /\ ret = NoReturn
    /\ asset_tag = NoTag

NoPrev == [op |-> "none", tag |-> NoTag, at |-> 0, fetched |-> FALSE, ret |-> NoReturn]

NoSnapshot == << >>
NoArgs == [repo |-> "", filename |-> "", body |-> ""]

AssetIdle ==
    /\ target = NoTarget
    /\ prev = NoPrev
    /\ before = NoSnapshot
    /\ args = NoArgs

NoCall ==
    [mode |-> "none", input |-> << >>, patterns |-> << >>, outcome |-> "none",
     idx |-> 0, value |-> None]

NoneGiven == [keywords |-> << >>, replaced |-> FALSE]

NoRead == [file |-> "none", at |-> 0, before |-> Absent, ret |-> Miss, after |-> Absent]

FinderIdle ==
    /\ releases = << >>
    /\ exclude_patterns = << >>
    /\ given = NoneGiven
    /\ call = NoCall

SeqsUpTo(X, n) == UNION {[1 .. k -> X] : k \in 0 .. n}

Init ==
    /\ repo \in Listings
    /\ pageSize \in 1 .. MaxPageSize
    /\ gh_cache = NoCache
    /\ cache = [f \in CacheFiles |-> Absent]
    /\ clock = 0
    /\ FrameInit
    /\ FinderIdle
    /\ AssetIdle
    /\ read = NoRead

\* GitHub.enable_cache(cache_minutes=m)
EnableCache(m) ==
    /\ pc = "idle"
    /\ gh_cache' = [set |-> TRUE, cache_minutes |-> m]
    /\ UNCHANGED <<serverVars, cache, clock, pc, op, count, url, params, result,
                   retries, attempt, sent, clean, resp, now, tret, ret, finderVars, read, assetVars>>

\* get_releases(repo_url, c) / get_all_releases(repo_url) / _release_assets(tg)
\* / get_checksum_asset(tg), up to the first request: without a cache helper
\* self.gh_cache is missing and the call raises; a valid cache entry is
\* returned at once; otherwise _get_request starts.
Call(o, c, tg) ==
    /\ pc = "idle"
    /\ op' = o
    /\ count' = c
    /\ asset_tag' = tg
    /\ before' = cache
    /\ IF ~gh_cache.set
       THEN /\ ret' = Raised("AttributeError")
            /\ pc' = "done"
            /\ UNCHANGED <<cache, url, params, retries>>
       ELSE LET hit == cached_data(CacheFile(o, tg))
            IN  /\ cache' = CacheAfterRead(CacheFile(o, tg))
                /\ IF hit.kind = "hit"
                   THEN /\ ret' = Outcome(o, tg, Triple(200, hit.data, NoError))
                        /\ pc' = "done"
                        /\ UNCHANGED <<url, params, retries>>
                   ELSE IF hit.kind = "raised"
                   THEN /\ ret' = Raised("UnicodeDecodeError")
                        /\ pc' = "done"
                        /\ UNCHANGED <<url, params, retries>>
                   ELSE /\ pc' = "fetch"
                        /\ url' = FirstUrl
                        /\ params' = PerPage(o, c)
                        /\ retries' = RetryTotal
                        /\ UNCHANGED ret
    /\ UNCHANGED <<serverVars, gh_cache, clock, result, attempt, sent, clean, resp,
                   now, tret, finderVars, read, target, prev, args>>

GetReleases == \E c \in Counts : Call("get_releases", c, NoTag)
GetAllReleases == Call("get_all_releases", 0, NoTag)

\* One exchange of _get_request: session.get sends the request (again, on a
\* retry) and the response is handled; when _get_request returns, the caller's
\* remaining code runs too.
Exchange ==
    /\ pc = "fetch"
    /\ \E r \in ServerResponses(url, params) :
       \E t \in IF r.status = 403 /\ r.remaining = 0 THEN Epochs ELSE {0} :
       \E jx \in IF r.body = "malformed" THEN JSONDecodeErrors ELSE {{"ValueError"}} :
         LET step == GetRequestStep(r, t, jx, Paginate(op))
         IN  /\ resp' = r
             /\ now' = t
             /\ sent' = sent + 1
             /\ clean' = (clean /\ r = ServedPage(url, params))
             /\ CASE step.k = "retry" ->
                        /\ retries' = Increment(retries)
                        /\ attempt' = attempt + 1
                        /\ UNCHANGED <<pc, url, params, result, tret, ret, cache>>
                  [] step.k = "next" ->
                        /\ url' = step.url
                        /\ params' = 0
                        /\ result' = step.result
                        /\ retries' = RetryTotal
                        /\ attempt' = 0
                        /\ UNCHANGED <<pc, tret, ret, cache>>
                  [] OTHER ->
                        /\ tret' = step.out
                        /\ ret' = Outcome(op, asset_tag, AfterFetch(op, step.out))
                        /\ cache' = CacheAfterFetch(op, step.out)
                        /\ pc' = "done"
                        /\ attempt' = attempt + 1
                        /\ UNCHANGED <<url, params, result, retries>>
    /\ UNCHANGED <<serverVars, gh_cache, clock, op, count, finderVars, read, assetVars>>

\* The caller takes the result; the client is idle again.
Return ==
    /\ pc = "done"
    /\ pc' = "idle"
    /\ op' = "none"
    /\ count' = 0
    /\ url' = NoUrl
    /\ params' = 0
    /\ result' = << >>
    /\ retries' = 0
    /\ attempt' = 0
    /\ sent' = 0
    /\ clean' = TRUE
    /\ resp' = NoResponse
    /\ now' = 0
    /\ tret' = NoReturn
    /\ ret' = NoReturn
    /\ asset_tag' = NoTag
    /\ before' = NoSnapshot
    /\ UNCHANGED <<serverVars, gh_cache, cache, clock, finderVars, read, target, prev, args>>

Next ==
    \/ EnableCache(DefaultCacheMinutes)
    \/ GetReleases
    \/ GetAllReleases
    \/ Exchange
    \/ Return

Spec == Init /\ [][Next]_vars

-----------------------------------------------------------------------------
(* datetime: _parse_date_iso, _parse_date_from_name *)

\* A datetime: its fields as a tuple, and whether it carries a time zone.
NoDate == [ok |-> FALSE, aware |-> FALSE, key |-> << >>]
DateTime(aware, key) == [ok |-> TRUE, aware |-> aware, key |-> key]

IsLeap(y) == (y % 4 = 0 /\ y % 100 # 0) \/ y % 400 = 0
DaysIn(y, m) ==
    IF m = 2 THEN (IF IsLeap(y) THEN 29 ELSE 28)
    ELSE IF m \in {4, 6, 9, 11} THEN 30 ELSE 31
ValidDate(y, m, d) == y >= 1 /\ m \in 1 .. 12 /\ d >= 1 /\ d <= DaysIn(y, m)

\* \d{4}-\d{2}-\d{2} at position i
DateShapeAt(s, i) ==
    /\ i + 9 <= Len(s)
    /\ AllDigits(s, i, 4) /\ Ch(s, i + 4) = "-"
    /\ AllDigits(s, i + 5, 2) /\ Ch(s, i + 7) = "-"
    /\ AllDigits(s, i + 8, 2)

\* \d{2}:\d{2}:\d{2} at position i
TimeShapeAt(s, i) ==
    /\ i + 7 <= Len(s)
    /\ AllDigits(s, i, 2) /\ Ch(s, i + 2) = ":"
    /\ AllDigits(s, i + 3, 2) /\ Ch(s, i + 5) = ":"
    /\ AllDigits(s, i + 6, 2)

\* dateutil's parser.parse on the forms the API and the tests use: YYYY-MM-DD,
\* YYYY-MM-DDTHH:MM:SS and YYYY-MM-DDTHH:MM:SSZ. Any other text is a ValueError
\* here (NoDate); only the last form carries a time zone.
date_parser_parse(s) ==
    IF ~DateShapeAt(s, 1) \/ ~ValidDate(Num(s, 1, 4), Num(s, 6, 2), Num(s, 9, 2))
    THEN NoDate
    ELSE LET ymd == <<Num(s, 1, 4), Num(s, 6, 2), Num(s, 9, 2)>>
             hms == <<Num(s, 12, 2), Num(s, 15, 2), Num(s, 18, 2)>>
             timed == Ch(s, 11) = "T" /\ TimeShapeAt(s, 12)
                        /\ hms[1] < 24 /\ hms[2] < 60 /\ hms[3] < 60
         IN  IF Len(s) = 10 THEN DateTime(FALSE, ymd \o <<0, 0, 0>>)
             ELSE IF timed /\ Len(s) = 19 THEN DateTime(FALSE, ymd \o hms)
             ELSE IF timed /\ Len(s) = 20 /\ Ch(s, 20) = "Z" THEN DateTime(TRUE, ymd \o hms)
             ELSE NoDate

\* _parse_date_iso
parse_date_iso(release) ==
    LET raw == Get(release, "published_at", None)
    IN  IF ~Truthy(raw) THEN NoDate ELSE date_parser_parse(raw.s)

\* re.search(r"/\s*(\d{4}-\d{2}-\d{2})", name): the positions of "/" from which
\* the pattern matches; the leftmost one is the match.
NameDateMatches(name) ==
    {i \in 1 .. Len(name) : Ch(name, i) = "/" /\ DateShapeAt(name, SpaceEnd(name, i + 1))}

\* datetime.fromisoformat of a YYYY-MM-DD text
fromisoformat(s) ==
    IF ValidDate(Num(s, 1, 4), Num(s, 6, 2), Num(s, 9, 2))
    THEN DateTime(FALSE, <<Num(s, 1, 4), Num(s, 6, 2), Num(s, 9, 2), 0, 0, 0>>)
    ELSE NoDate

\* _parse_date_from_name, for a name that is a str
parse_date_from_name(name) ==
    LET m == NameDateMatches(name)
    IN  IF m = {} THEN NoDate
        ELSE LET i == CHOOSE x \in m : \A y \in m : x <= y
                 g == SpaceEnd(name, i + 1)
             IN  fromisoformat(SubSeq(name, g, g + 9))

-----------------------------------------------------------------------------
(* packaging.version: parse, and the order of Version *)

IsSep(c) == c \in {"-", "_", "."}

\* A parsed Version: the release numbers without trailing zeros, the
\* pre-release as <<rank, number>> (a = 0, b = 1, rc = 2, none = 3: a final
\* release sorts after its pre-releases), the local segments (none: << >>).
NoPre == <<3, 0>>
Version(release, pre, local) == [ok |-> TRUE, release |-> release, pre |-> pre, local |-> local]
InvalidVersion == [ok |-> FALSE, release |-> << >>, pre |-> NoPre, local |-> << >>]

RECURSIVE StripZeros(_)
StripZeros(ns) ==
    IF ns # << >> /\ ns[Len(ns)] = 0 THEN StripZeros(SubSeq(ns, 1, Len(ns) - 1)) ELSE ns

\* [0-9]+(\.[0-9]+)* from position i, which holds a digit: its numbers, its end
RECURSIVE ReleaseNums(_, _)
ReleaseNums(s, i) ==
    LET j == DigitsEnd(s, i)
    IN  <<ToNat(SubSeq(s, i, j - 1))>>
        \o (IF Ch(s, j) = "." /\ IsDigit(Ch(s, j + 1)) THEN ReleaseNums(s, j + 1) ELSE << >>)
RECURSIVE ReleaseEnd(_, _)
ReleaseEnd(s, i) ==
    LET j == DigitsEnd(s, i)
    IN  IF Ch(s, j) = "." /\ IsDigit(Ch(s, j + 1)) THEN ReleaseEnd(s, j + 1) ELSE j

\* (alpha|a|beta|b|preview|pre|c|rc), in the pattern's order
PreWords == <<"alpha", "a", "beta", "b", "preview", "pre", "c", "rc">>
PreRank(w) == IF w \in {"alpha", "a"} THEN 0 ELSE IF w \in {"beta", "b"} THEN 1 ELSE 2

\* [-_.]?(word)[-_.]?[0-9]* at position i: whether it is there, its value, its end
PreAt(s, i) ==
    LET q == IF IsSep(Ch(s, i)) THEN i + 1 ELSE i
        ws == {k \in 1 .. Len(PreWords) : StartsAt(s, q, PreWords[k])}
    IN  IF ws = {} THEN [ok |-> FALSE, pre |-> NoPre, end |-> i]
        ELSE LET w == PreWords[CHOOSE k \in ws : \A l \in ws : k <= l]
                 a == q + Len(w)
                 b == IF IsSep(Ch(s, a)) THEN a + 1 ELSE a
                 e == DigitsEnd(s, b)
             IN  [ok |-> TRUE, pre |-> <<PreRank(w), ToNat(SubSeq(s, b, e - 1))>>, end |-> e]

\* One local segment: a number when it is all digits, a text otherwise.
LocalSegment(x) ==
    IF DigitsEnd(x, 1) = Len(x) + 1 THEN [num |-> TRUE, n |-> ToNat(x), s |-> ""]
    ELSE [num |-> FALSE, n |-> 0, s |-> x]

\* [a-z0-9]+([-_.][a-z0-9]+)* from position i: its segments, its end
RECURSIVE LocalSegments(_, _)
LocalSegments(s, i) ==
    LET j == AlnumEnd(s, i)
    IN  <<LocalSegment(SubSeq(s, i, j - 1))>>
        \o (IF IsSep(Ch(s, j)) /\ IsAlnum(Ch(s, j + 1)) THEN LocalSegments(s, j + 1) ELSE << >>)
RECURSIVE LocalEnd(_, _)
LocalEnd(s, i) ==
    LET j == AlnumEnd(s, i)
    IN  IF IsSep(Ch(s, j)) /\ IsAlnum(Ch(s, j + 1)) THEN LocalEnd(s, j + 1) ELSE j

\* packaging.version.parse: v? release pre? (+local)?, case-insensitive, the
\* whole text. (Epochs, post- and dev-releases are left out: no tag here has
\* one.)
parse_version(tag) ==
    LET s == Lower(tag)
        r0 == IF Ch(s, 1) = "v" THEN 2 ELSE 1
    IN  IF ~IsDigit(Ch(s, r0)) THEN InvalidVersion
        ELSE LET r1 == ReleaseEnd(s, r0)
                 pre == PreAt(s, r1)
                 p1 == pre.end
                 hasLocal == Ch(s, p1) = "+" /\ IsAlnum(Ch(s, p1 + 1))
                 l1 == IF hasLocal THEN LocalEnd(s, p1 + 1) ELSE p1
             IN  IF l1 # Len(s) + 1 THEN InvalidVersion
                 ELSE Version(StripZeros(ReleaseNums(s, r0)), pre.pre,
                              IF hasLocal THEN LocalSegments(s, p1 + 1) ELSE << >>)

Alphabet == "0123456789abcdefghijklmnopqrstuvwxyz"
Ord(c) == CHOOSE i \in 0 .. Len(Alphabet) : (i = 0 /\ c = "") \/ (i > 0 /\ Ch(Alphabet, i) = c)

RECURSIVE StrLess(_, _)
StrLess(a, b) ==
    IF b = "" THEN FALSE
    ELSE IF a = "" THEN TRUE
    ELSE IF Ch(a, 1) = Ch(b, 1) THEN StrLess(Tail(a), Tail(b))
    ELSE Ord(Ch(a, 1)) < Ord(Ch(b, 1))

\* In a local version a text sorts before a number.
SegmentLess(x, y) ==
    IF x.num /\ y.num THEN x.n < y.n
    ELSE IF x.num # y.num THEN y.num
    ELSE StrLess(x.s, y.s)

RECURSIVE LocalLess(_, _)
LocalLess(a, b) ==
    IF b = << >> THEN FALSE
    ELSE IF a = << >> THEN TRUE
    ELSE IF a[1] = b[1] THEN LocalLess(Tail(a), Tail(b))
    ELSE SegmentLess(a[1], b[1])

\* Version.__lt__: by release, then pre-release, then local version
VersionLess(a, b) ==
    IF a.release # b.release THEN SeqLess(a.release, b.release)
    ELSE IF a.pre # b.pre THEN SeqLess(a.pre, b.pre)
    ELSE LocalLess(a.local, b.local)

ZeroVersion == Version(<< >>, NoPre, << >>)

-----------------------------------------------------------------------------
(* ReleaseFinder *)

IsStr(v) == v.t = "str"

\* pattern.search(text) for the pattern compiled from keywords:
\* .*(k1|k2|...).* with re.IGNORECASE finds any keyword anywhere in the text
Search(keywords, text) ==
    \E k \in 1 .. Len(keywords) : Contains(Lower(text), Lower(keywords[k]))

is_excluded_CaseSensitive(release, patterns) ==
    LET n == Get(release, "name", S(""))
        g == Get(release, "tag_name", S(""))
        name == IF Truthy(n) THEN n.s ELSE ""
        tag == IF Truthy(g) THEN g.s ELSE ""
    IN  \E p \in 1 .. Len(patterns) : \E k \in 1 .. Len(patterns[p]) :
            Contains(name, patterns[p][k]) \/ Contains(tag, patterns[p][k])

\* _is_excluded
is_excluded(release, patterns) ==
    LET n == Get(release, "name", S(""))
        g == Get(release, "tag_name", S(""))
        name == IF Truthy(n) THEN n.s ELSE ""
        tag == IF Truthy(g) THEN g.s ELSE ""
    IN  \E p \in 1 .. Len(patterns) : Search(patterns[p], name) \/ Search(patterns[p], tag)

is_security_release_TagOnly(release) ==
    LET tag == Get(release, "tag_name", S(""))
    IN  IF ~IsStr(tag) THEN "TypeError"
        ELSE IF Contains(tag.s, "+security") THEN "True"
        ELSE "False"

\* _is_security_release: "True", "False", or "TypeError" when the operand
\* of `in` that is reached is None
is_security_release(release) ==
    LET tag == Get(release, "tag_name", S(""))
        name == Get(release, "name", S(""))
    IN  IF ~IsStr(tag) THEN "TypeError"
        ELSE IF Contains(tag.s, "+security") THEN "True"
        ELSE IF ~IsStr(name) THEN "TypeError"
        ELSE IF Contains(name.s, "+security") THEN "True"
        ELSE "False"

\* parse_version(tag) under `except InvalidVersion`, for a tag that is a str
VersionOr(v, fallback) == IF v.ok THEN v ELSE parse_version(fallback)

parse_semver_InvalidHighest(release) ==
    LET tag == Get(release, "tag_name", S(""))
    IN  IF ~IsStr(tag) THEN [raised |-> TRUE, v |-> ZeroVersion]
        ELSE [raised |-> FALSE, v |-> VersionOr(parse_version(tag.s), "9999")]

\* _parse_semver: InvalidVersion is caught, the TypeError of a None tag is not
parse_semver(release) ==
    LET tag == Get(release, "tag_name", S(""))
    IN  IF ~IsStr(tag) THEN [raised |-> TRUE, v |-> ZeroVersion]
        ELSE [raised |-> FALSE, v |-> VersionOr(parse_version(tag.s), "0.0.0")]

NoCandidate == [kind |-> "None", dt |-> NoDate, sem |-> ZeroVersion]
Raises == [kind |-> "TypeError", dt |-> NoDate, sem |-> ZeroVersion]
Candidate(dt, sem) == [kind |-> "candidate", dt |-> dt, sem |-> sem]

\* dt = self._parse_date_iso(release) or self._parse_date_from_name(release)
DateOr(iso, name) == IF iso.ok THEN iso ELSE parse_date_from_name(name.s)

Undated(iso, name, dt, sem) ==
    IF ~iso.ok /\ ~IsStr(name) THEN Raises
    ELSE IF sem.raised THEN Raises
    ELSE Candidate(dt, sem.v)

\* The body of _get_candidate over its intermediate values
Dated(iso, name, dt, sem) ==
    IF ~iso.ok /\ ~IsStr(name) THEN Raises
    ELSE IF ~dt.ok THEN NoCandidate
    ELSE IF sem.raised THEN Raises
    ELSE Candidate(dt, sem.v)

FromParts(iso, name, sem) == Dated(iso, name, DateOr(iso, name), sem)
FromParts_KeepUndated(iso, name, sem) == Undated(iso, name, DateOr(iso, name), sem)

get_candidate_KeepUndated(release) ==
    FromParts_KeepUndated(parse_date_iso(release), Get(release, "name", S("")),
                          parse_semver(release))

\* _get_candidate: the (date, semver) of a release, None when it has no date,
\* TypeError when re.search or parse_version is handed None
get_candidate(release) ==
    FromParts(parse_date_iso(release), Get(release, "name", S("")), parse_semver(release))

DateLess(a, b) == SeqLess(a.key, b.key)

Greater_SemverFirst(mode, a, b) ==
    IF VersionLess(b.sem, a.sem) THEN "True" ELSE "False"

Greater_DateFirst(mode, a, b) ==
    IF a.dt = b.dt THEN (IF VersionLess(b.sem, a.sem) THEN "True" ELSE "False")
    ELSE IF a.dt.aware # b.dt.aware THEN "TypeError"
    ELSE IF DateLess(b.dt, a.dt) THEN "True" ELSE "False"

\* key(a) > key(b) as max evaluates it: the key is x[1] in the version and
\* security modes and (x[0], x[1]) otherwise; two datetimes of which one has a
\* timezone and the other has none are unequal, and ordering them is a
\* TypeError
Greater(mode, a, b) ==
    IF mode \in {"version", "security"}
    THEN (IF VersionLess(b.sem, a.sem) THEN "True" ELSE "False")
    ELSE IF a.dt = b.dt THEN (IF VersionLess(b.sem, a.sem) THEN "True" ELSE "False")
    ELSE IF a.dt.aware # b.dt.aware THEN "TypeError"
    ELSE IF DateLess(b.dt, a.dt) THEN "True" ELSE "False"

\* The state of max over the lazy chain of generators: whether an exception
\* has escaped, the index of the greatest candidate so far, and its key
NoMax == [raised |-> FALSE, best |-> 0, cand |-> NoCandidate]

\* latest["name"] = value
SetName(release, value) ==
    [k \in DOMAIN release \cup {"name"} |-> IF k = "name" THEN value ELSE release[k]]

Backfilled_OnlyNull(latest) ==
    IF ~IsStr(Get(latest, "name", None))
    THEN SetName(latest, Get(latest, "tag_name", None))
    ELSE latest

\* if not _name or len(_name) == 0: latest["name"] = _tag_name
Backfilled(latest) ==
    IF ~Truthy(Get(latest, "name", None))
    THEN SetName(latest, Get(latest, "tag_name", None))
    ELSE latest

-----------------------------------------------------------------------------
(* FinderSpec: a ReleaseFinder over a list of releases *)

Release(name, tag_name, published_at) ==
    [name |-> name, tag_name |-> tag_name, published_at |-> published_at]

\* The releases a finder is constructed over: the two of the published-mode
\* example, two security releases, a release without any date, one whose tag is
\* no version, whose date is the latest and whose name marks it a security
\* release, one dated only by its name, one
\* with a blank name published at the same second as the first, one whose
\* version is 0.0.0, one whose name is null and whose date is no date, one
\* whose name is null, and one that has no name.
FinderReleases ==
    { Release(S("12.0.2"), S("v12.0.2"), S("2025-06-17T21:41:45Z")),
      Release(S("11.6.3"), S("v11.6.3"), S("2025-06-17T21:58:59Z")),
      Release(S("12.0.1+security-01"), S("v12.0.1+security-01"), S("2025-06-13T04:15:18Z")),
      Release(S("11.6.2+security-01"), S("v11.6.2+security-01"), S("2025-06-13T04:12:24Z")),
      Release(S("13.0.0"), S("v13.0.0"), None),
      Release(S("nightly+security"), S("nightly"), S("2025-06-18T00:00:00Z")),
      [name |-> S("Release v2.0.0 / 2025-05-27"), tag_name |-> S("v2.0.0")],
      Release(S(""), S("v12.1.0-beta"), S("2025-06-17T21:41:45Z")),
      Release(S("0.0.0"), S("0.0.0"), S("2025-06-01")),
      Release(None, S("v11.5.6"), S("N/A")),
      Release(None, S("v11.4.6"), S("2025-06-17T20:54:31Z")),
      [tag_name |-> S("v11.3.8"), published_at |-> S("2025-06-17T19:56:35Z")] }

KeywordLists == {<< >>, <<"BETA", "rc">>, <<"nightly">>}
Modes == {"published", "version", "security"}

\* Other dates a release could carry: an earlier one, a later one, and one
\* without a time zone
AltDates == {"2020-01-01T00:00:00Z", "2030-12-31T23:59:59Z", "2025-05-27"}

\* release with published_at = d
WithDate(release, d) ==
    [k \in DOMAIN release \cup {"published_at"} |->
        IF k = "published_at" THEN S(d) ELSE release[k]]

\* Every release a finder of this model can come to hold or be compared
\* with: those above, the same with another date, and what find_latest's
\* assignment of the name makes of them
Universe ==
    LET dated == FinderReleases \cup {WithDate(r, d) : r \in FinderReleases, d \in AltDates}
    IN  dated \cup {Backfilled(r) : r \in dated}

PatternLists == {IF k = << >> THEN << >> ELSE <<k>> : k \in KeywordLists}

\* The values of _get_candidate, _is_security_release and _is_excluded over
\* the releases of the model, computed once
CandidateOf == [r \in Universe |-> get_candidate(r)] @@ << >>
SecurityOf == [r \in Universe |-> is_security_release(r)] @@ << >>
ExcludedBy == [p \in PatternLists |-> [r \in Universe |-> is_excluded(r, p)] @@ << >>] @@ << >>

\* max's step for a candidate c that passed the filters: it replaces the
\* greatest so far only when strictly greater
Compare(acc, i, c, g) ==
    IF acc.best = 0 THEN [raised |-> FALSE, best |-> i, cand |-> c]
    ELSE IF g = "TypeError" THEN [acc EXCEPT !.raised = TRUE]
    ELSE IF g = "True" THEN [raised |-> FALSE, best |-> i, cand |-> c]
    ELSE acc

Filter(acc, i, c, sec, mode) ==
    IF c.kind = "TypeError" THEN [acc EXCEPT !.raised = TRUE]
    ELSE IF c.kind = "None" THEN acc
    ELSE IF sec = "TypeError" THEN [acc EXCEPT !.raised = TRUE]
    ELSE IF sec = "False" THEN acc
    ELSE Compare(acc, i, c, Greater(mode, c, acc.cand))

\* One release pulled through the chain: the exclusion filter, _get_candidate,
\* filter(None), the security filter (in the security mode), and max
Pull(acc, i, rels, mode, patterns) ==
    IF acc.raised THEN acc
    ELSE IF ExcludedBy[patterns][rels[i]] THEN acc
    ELSE Filter(acc, i, CandidateOf[rels[i]],
                IF mode = "security" THEN SecurityOf[rels[i]] ELSE "True", mode)

RECURSIVE MaxCandidate(_, _, _, _)
MaxCandidate(rels, n, mode, patterns) ==
    IF n = 0 THEN NoMax
    ELSE Pull(MaxCandidate(rels, n - 1, mode, patterns), n, rels, mode, patterns)

\* What find_latest returns for the outcome m of max, and self.releases after
\* it: the returned member had its name assigned in place
Latest(rels, m) ==
    IF m.raised THEN [outcome |-> "raised", idx |-> 0, value |-> None, releases |-> rels]
    ELSE IF m.best = 0
    THEN [outcome |-> "none", idx |-> 0, value |-> None, releases |-> rels]
    ELSE [outcome |-> "returned", idx |-> m.best, value |-> Backfilled(rels[m.best]),
          releases |-> [rels EXCEPT ![m.best] = Backfilled(rels[m.best])]]

\* find_latest
find_latest(rels, mode, patterns) == Latest(rels, MaxCandidate(rels, Len(rels), mode, patterns))

\* ReleaseFinder(module, releases)
FinderInit ==
    /\ repo = << >>
    /\ pageSize = 1
    /\ gh_cache = NoCache
    /\ cache = [f \in CacheFiles |-> Absent]
    /\ clock = 0
    /\ FrameInit
    /\ releases \in SeqsUpTo(FinderReleases, MaxReleases)
    /\ exclude_patterns = << >>
    /\ given = NoneGiven
    /\ call = NoCall
    /\ AssetIdle
    /\ read = NoRead

set_exclude_keywords_KeepOnEmpty(patterns, keywords) ==
    IF keywords = << >> THEN patterns ELSE <<keywords>>

\* set_exclude_keywords: self.exclude_patterns after it, patterns before it
set_exclude_keywords(patterns, keywords) ==
    IF keywords = << >> THEN << >> ELSE <<keywords>>

\* set_exclude_keywords(keywords)
SetExcludeKeywords(keywords) ==
    /\ exclude_patterns' = set_exclude_keywords(exclude_patterns, keywords)
    /\ given' = [keywords |-> keywords,
                 replaced |-> given.keywords # << >> /\ given.keywords # keywords]
    /\ UNCHANGED <<serverVars, clientVars, assetVars, releases, call, read>>

\* find_latest(mode)
FindLatest(mode) ==
    LET r == find_latest(releases, mode, exclude_patterns)
    IN  /\ releases' = r.releases
        /\ call' = [mode |-> mode, input |-> releases, patterns |-> exclude_patterns,
                    outcome |-> r.outcome, idx |-> r.idx, value |-> r.value]
        /\ UNCHANGED <<serverVars, clientVars, assetVars, exclude_patterns, given, read>>

FinderNext ==
    \/ \E keywords \in KeywordLists : SetExcludeKeywords(keywords)
    \/ \E mode \in Modes : FindLatest(mode)

FinderSpec == FinderInit /\ [][FinderNext]_vars

-----------------------------------------------------------------------------
(* CacheSpec: a GitHubCache, its directory and the clock *)

\* The instants at which something happens, in ticks: with the default of 60
\* minutes a file written at 0 or 1 is 59, 59.5, 60, 60.5 and 61 minutes old
\* at the later ones
Instants == {0, 1, 118, 119, 120, 121, 122}

\* What write_cache is handed: a list of releases, or an empty list
Payloads == {<< >>, Normalized("get_releases", <<AllReleases[1]>>)}

\* GitHubCache(module, cache_dir, cache_file, cache_minutes=60)
CacheInit ==
    /\ repo = << >>
    /\ pageSize = 1
    /\ gh_cache = [set |-> TRUE, cache_minutes |-> DefaultCacheMinutes]
    /\ cache = [f \in CacheFiles |-> Absent]
    /\ clock = 0
    /\ FrameInit
    /\ FinderIdle
    /\ AssetIdle
    /\ read = NoRead

\* Time passes
Tick ==
    /\ \E t \in Instants : t > clock /\ clock' = t
    /\ UNCHANGED <<serverVars, gh_cache, cache, pc, op, count, url, params, result,
                   retries, attempt, sent, clean, resp, now, tret, ret, finderVars, read, assetVars>>

\* write_cache(cache_path, data)
WriteCache ==
    /\ \E f \in CacheFiles, data \in Payloads : cache' = write_cache(cache, f, data)
    /\ UNCHANGED <<serverVars, gh_cache, clock, pc, op, count, url, params, result,
                   retries, attempt, sent, clean, resp, now, tret, ret, finderVars, read, assetVars>>

\* The file system leaves a file that is no JSON: a write that was cut short
Garble ==
    /\ \E f \in CacheFiles, text \in {"malformed", "undecodable"} :
          cache' = [cache EXCEPT ![f] = File(clock, text, << >>)]
    /\ UNCHANGED <<serverVars, gh_cache, clock, pc, op, count, url, params, result,
                   retries, attempt, sent, clean, resp, now, tret, ret, finderVars, read, assetVars>>

\* cached_data(cache_path)
CachedData ==
    /\ \E f \in CacheFiles :
          /\ read' = [file |-> f, at |-> clock, before |-> cache[f], ret |-> cached_data(f),
                      after |-> CacheAfterRead(f)[f]]
          /\ cache' = CacheAfterRead(f)
    /\ UNCHANGED <<serverVars, gh_cache, clock, pc, op, count, url, params, result,
                   retries, attempt, sent, clean, resp, now, tret, ret, finderVars, assetVars>>

CacheNext == Tick \/ WriteCache \/ Garble \/ CachedData

CacheSpec == CacheInit /\ [][CacheNext]_vars

-----------------------------------------------------------------------------
(* ClientSpec: one client with its cache enabled, its calls one after another
   while time passes; AssetSpec: the same client looking for checksum assets *)

\* The releases of the repository: one whose archive is named after the tag
\* and comes before two checksum files, one with an archive only.
TaggedReleases ==
    << [name |-> S("1.2"), tag_name |-> S("v1.2"),
       published_at |-> S("2025-06-17T21:41:45Z"), html_url |-> S("h1"),
       assets |-> <<Asset("app-1.2.tar.gz", S("d1")), Asset("app.sha512", S("d2")),
                    Asset("CheckSums.txt", S("d3"))>>],
       [name |-> S("2"), tag_name |-> S("V2"),
       published_at |-> S("2025-06-17T21:58:59Z"), html_url |-> S("h2"),
       assets |-> <<Asset("b.tgz", S("d4"))>>] >>

\* tag arguments tried: the two tags, and a tag of no release
Tags == {"v1.2", "V2", "v9"}

\* architecture() arguments tried: a usual pair, and a pair of texts that an
\* archive name contains
Targets == {Target("linux", "amd64"), Target("tar", "gz")}

\* The instants the calls are made at: at once, when a file written at once
\* reaches the time to live, and one tick later.
ClientInstants ==
    {0, DefaultCacheMinutes * TicksPerMinute, DefaultCacheMinutes * TicksPerMinute + 1}

AssetFiles == {CacheFile("_release_assets", tg) : tg \in Tags}

ClientInit ==
    /\ repo = TaggedReleases
    /\ pageSize \in 1 .. MaxPageSize
    /\ gh_cache = [set |-> TRUE, cache_minutes |-> DefaultCacheMinutes]
    /\ cache = [f \in CacheFiles \cup {CacheFile("_release_assets", "v1.2")} |-> Absent]
    /\ clock = 0
    /\ FrameInit
    /\ FinderIdle
    /\ AssetIdle
    /\ read = NoRead

\* _release_assets(tg)
ReleaseAssets(tags) == \E tg \in tags : Call("_release_assets", 0, tg)

\* get_checksum_asset(tg)
GetChecksumAsset == \E tg \in Tags : Call("get_checksum_asset", 0, tg)

\* gh.architecture(system, architecture): the name architecture is looked up
\* on the object. Before the first call it is the method, which stores its
\* arguments; the method has then stored a str under its own name, and a
\* later call calls that str.
Called(t) ==
    IF target.set THEN [ret |-> Raised("TypeError"), target |-> target]
    ELSE [ret |-> Answer(None), target |-> t]

Architecture ==
    /\ pc = "idle"
    /\ \E t \in Targets :
          /\ ret' = Called(t).ret
          /\ target' = Called(t).target
    /\ op' = "architecture"
    /\ pc' = "done"
    /\ UNCHANGED <<serverVars, gh_cache, cache, clock, count, url, params, result,
                   retries, attempt, sent, clean, resp, now, tret, asset_tag, prev,
                   before, args, finderVars, read>>

\* Time passes between two calls.
Later ==
    /\ pc = "idle"
    /\ \E t \in ClientInstants : t > clock /\ clock' = t
    /\ UNCHANGED <<serverVars, gh_cache, cache, pc, op, count, url, params, result,
                   retries, attempt, sent, clean, resp, now, tret, ret, finderVars,
                   read, assetVars>>

\* The caller takes the result, as in Return, and it is remembered as the
\* last call: the operation, its tag, the time, whether it sent a request, and
\* the triple it returned when that was a success.
Handover ==
    /\ pc = "done"
    /\ prev' = [op |-> op, tag |-> asset_tag, at |-> clock, fetched |-> sent > 0,
                ret |-> IF ret.kind = "returned" /\ ret.status = 200 THEN ret
                        ELSE NoReturn]
    /\ pc' = "idle"
    /\ op' = "none"
    /\ count' = 0
    /\ url' = NoUrl
    /\ params' = 0
    /\ result' = << >>
    /\ retries' = 0
    /\ attempt' = 0
    /\ sent' = 0
    /\ clean' = TRUE
    /\ resp' = NoResponse
    /\ now' = 0
    /\ tret' = NoReturn
    /\ ret' = NoReturn
    /\ asset_tag' = NoTag
    /\ before' = NoSnapshot
    /\ UNCHANGED <<serverVars, gh_cache, cache, clock, finderVars, read, target, args>>

ClientNext ==
    \/ GetReleases
    \/ GetAllReleases
    \/ ReleaseAssets({"v1.2"})
    \/ Exchange
    \/ Handover
    \/ Later

ClientSpec == ClientInit /\ [][ClientNext]_vars

AssetInit ==
    /\ repo \in {TaggedReleases}
    /\ pageSize = MaxPageSize
    /\ gh_cache = [set |-> TRUE, cache_minutes |-> DefaultCacheMinutes]
    /\ cache = [f \in AssetFiles |-> Absent]
    /\ clock = 0
    /\ FrameInit
    /\ FinderIdle
    /\ AssetIdle
    /\ read = NoRead

AssetNext ==
    \/ Architecture
    \/ ReleaseAssets(Tags)
    \/ GetChecksumAsset
    \/ Exchange
    \/ Return

AssetSpec == AssetInit /\ [][AssetNext]_vars

-----------------------------------------------------------------------------
(* GitHub: download_checksum, _download_file, checksum *)

\* A Python list as a value that is told apart from a str and from None
List(v) == [t |-> "list", v |-> v]

\* The position of the first character of s from position i on that is in
\* the set chars, Len(s) + 1 when there is none
Find(s, i, chars) ==
    Min(Len(s) + 1,
        CHOOSE j \in i .. Len(s) + 1 :
            /\ j <= Len(s) => Ch(s, j) \in chars
            /\ \A k \in i .. j - 1 : Ch(s, k) \notin chars)

\* The position after the line break at position j: \r\n is one break
AfterBreak(s, j) == IF Ch(s, j) = "\r" /\ Ch(s, j + 1) = "\n" THEN j + 2 ELSE j + 1

\* The line of s that starts at position i and ends before position j, and
\* the lines after it
RECURSIVE SplitLines(_, _)
LineAndRest(s, i, j) == <<SubSeq(s, i, j - 1)>> \o SplitLines(s, AfterBreak(s, j))

\* str.splitlines(), for the line breaks \n, \r and \r\n: the lines of s
\* from position i on
SplitLines(s, i) ==
    IF i > Len(s) THEN << >> ELSE LineAndRest(s, i, Find(s, i, {"\n", "\r"}))

\* line.strip() is not empty
NonBlank(line) == \E i \in 1 .. Len(line) : Ch(line, i) \notin {" ", "\t", "\n", "\r"}

\* [line for line in content.splitlines() if line.strip()]
Lines(content) == SelectSeq(SplitLines(content, 1), NonBlank)

\* Path(dir) / filename: an absolute filename replaces dir
PathJoin(dir, filename) ==
    IF Ch(filename, 1) = "/" THEN filename ELSE dir \o "/" \o filename

\* self.gh_cache.cache_dir, as enable_cache builds it
cache_directory == "/c"

\* GitHubCache.cache_path(filename)
cache_path(filename) == PathJoin(cache_directory, filename)

\* _download_file(url, dest_path, stream=False), given what _get_request
\* gave: the exception it raises, or the cache directory it leaves.
download_file(got, dest_path) ==
    IF got.status # 200 THEN [ret |-> Raised("Exception"), cache |-> cache]
    ELSE [ret |-> Answer(None), cache |-> write_cache(cache, dest_path, Lines(got.payload))]

\* download_checksum(url, filename): dest = Path(filename)
download_checksum(got, filename) == download_file(got, filename)

\* The pattern pat matches x at position i: a character of pat matches
\* itself, and "." matches any character.
MatchAt(x, i, pat) ==
    /\ i + Len(pat) - 1 <= Len(x)
    /\ \A k \in 1 .. Len(pat) : Ch(pat, k) = "." \/ Ch(pat, k) = Ch(x, i + k - 1)

\* re.search(fr".*{repo}.*{system}.*{architecture}.*", x)
Search3(x, r, s, a) ==
    \E i \in 1 .. Len(x) + 1 :
        /\ MatchAt(x, i, r)
        /\ \E j \in i + Len(r) .. Len(x) + 1 :
              /\ MatchAt(x, j, s)
              /\ \E k \in j + Len(s) .. Len(x) + 1 : MatchAt(x, k, a)

\* [x for x in cached_data if re.search(...)]
RECURSIVE Matching(_, _)
Matching(lines, r) ==
    IF lines = << >> THEN << >>
    ELSE (IF Search3(Head(lines), r, target.system, target.architecture)
          THEN <<Head(lines)>> ELSE << >>) \o Matching(Tail(lines), r)

\* s.split(" ")[0]
FirstToken(s) == SubSeq(s, 1, Find(s, 1, {" "}) - 1)

Fallback_Never(cached_data_, found) == List(found)

\* The else branch: one cached line in all, and len(line.split(" ")) == 1
Fallback(cached_data_, found) ==
    IF Len(cached_data_) = 1 /\ ~Contains(cached_data_[1], " ")
    THEN S(cached_data_[1])
    ELSE List(found)

\* checksum = checksum.split(" ")[0] if it is a str
Tokenized(v) == IF v.t = "str" THEN S(FirstToken(v.s)) ELSE v

Resolve(cached_data_, found) ==
    Tokenized(IF Len(found) = 1 THEN S(found[1]) ELSE Fallback(cached_data_, found))

Pair(lines, v) == [kind |-> "returned", lines |-> lines, checksum |-> v]

\* checksum(repo, filename), given what cached_data gave for the file
checksum(got, r) ==
    IF got.kind = "raised" THEN Raised("UnicodeDecodeError")
    ELSE IF got.kind = "miss" \/ got.data = << >> THEN Pair(<< >>, None)
    ELSE IF ~target.set THEN Raised("AttributeError")
    ELSE Pair(got.data, Resolve(got.data, Matching(got.data, r)))

-----------------------------------------------------------------------------
(* ChecksumSpec: checksum files are downloaded and resolved *)

\* The bodies of the checksum files: two artefacts of myapp; a bare hash
\* between blank lines; one artefact of another name; an archive and its
\* signature; the three texts in another order; two artefacts of a.b
Bodies ==
    { "abcd1234  myapp-linux-x86_64.tar.gz\nef567890  myapp-darwin-x86_64.tar.gz\n",
      "\n  \r\nabcd1234\n",
      "abcd1234  other.tgz\n",
      "h1  myapp-linux-x86_64.tgz\nh2  myapp-linux-x86_64.tgz.sig\n",
      "h1  x86_64-linux-myapp.tgz\nh2  myapp-darwin-x86_64.tgz\n",
      "h1  axb-linux-x86_64.tgz\nh2  a.b-linux-x86_64.tgz\n" }

\* filename arguments: relative, and absolute as cache_path gives it
Filenames == {"sums.txt", "/c/sums.txt"}

\* repo arguments
Repos == {"myapp", "a.b"}

\* What _get_request(url, stream=False, expect_json=False) returns: the text
\* of the response, or one of its failures.
TextResults ==
    {Triple(200, b, NoError) : b \in Bodies}
    \cup {Triple(RequestFailed, << >>, RequestError),
          Triple(TooManyRequests, << >>, RateLimitError(1))}

ChecksumInit ==
    /\ repo = << >>
    /\ pageSize = 1
    /\ gh_cache = [set |-> TRUE, cache_minutes |-> DefaultCacheMinutes]
    /\ cache = [f \in Filenames |-> Absent]
    /\ clock = 0
    /\ FrameInit
    /\ FinderIdle
    /\ prev = NoPrev
    /\ before = NoSnapshot
    /\ args = NoArgs
    /\ target = Target("linux", "x86_64")
    /\ read = NoRead

DownloadChecksum ==
    /\ pc = "idle"
    /\ \E filename \in Filenames : \E got \in TextResults :
          /\ args' = [repo |-> "", filename |-> filename,
                      body |-> IF got.status = 200 THEN got.payload ELSE ""]
          /\ tret' = got
          /\ ret' = download_checksum(got, filename).ret
          /\ cache' = download_checksum(got, filename).cache
    /\ op' = "download_checksum"
    /\ pc' = "done"
    /\ UNCHANGED <<serverVars, gh_cache, clock, count, url, params, result, retries,
                   attempt, sent, clean, resp, now, asset_tag, target, prev, before,
                   finderVars, read>>

Checksum ==
    /\ pc = "idle"
    /\ \E r \in Repos : \E filename \in Filenames :
          /\ args' = [repo |-> r, filename |-> filename, body |-> ""]
          /\ ret' = checksum(cached_data(cache_path(filename)), r)
          /\ cache' = CacheAfterRead(cache_path(filename))
    /\ op' = "checksum"
    /\ pc' = "done"
    /\ UNCHANGED <<serverVars, gh_cache, clock, count, url, params, result, retries,
                   attempt, sent, clean, resp, now, tret, asset_tag, target, prev,
                   before, finderVars, read>>

ChecksumNext ==
    \/ DownloadChecksum
    \/ Checksum
    \/ Return

ChecksumSpec == ChecksumInit /\ [][ChecksumNext]_vars

-----------------------------------------------------------------------------
(* Claims about the transport and the repository, checked under Spec *)

\* The running call has left _get_request.
Fetched == pc = "done" /\ sent > 0

\* The last response was the page asked for, not a failure.
GoodResponse(r) == r.io = "ok" /\ r.status = 200 /\ r.body = "json"

\* The last response was a rate limit: 403 with X-RateLimit-Remaining: 0.
RateLimited(r) == r.io = "ok" /\ r.status = 403 /\ r.remaining = 0

C2_RateLimit ==
    RateLimited(resp) =>
        /\ pc = "done"
        /\ tret = Triple(TooManyRequests, << >>,
                         RateLimitError(Max((IF resp.reset = -1 THEN 0 ELSE resp.reset) - now, 1)))

C2_Witness ==
    /\ pc = "done" /\ RateLimited(resp)
    /\ url.page = 2
    /\ resp.reset = 3 /\ now = 0
    /\ tret.status = 429 /\ tret.error.wait = 3

\* C3: _get_request never raises: whatever the server does, it returns; and when
\* the last response is not a served page (malformed JSON, an error status, a
\* connection error, retries exhausted, a rate limit) it returns a status other
\* than 200, an empty payload and a message.
C3_NeverRaises ==
    Fetched =>
        /\ tret.kind = "returned"
        /\ ~GoodResponse(resp) =>
              /\ tret.status # 200
              /\ tret.payload = << >>
              /\ tret.error # NoError

C3_Witness ==
    /\ Fetched
    /\ resp.body = "malformed"
    /\ tret = Triple(RequestFailed, << >>, JSONError)

C5_AtMostCount ==
    (Fetched /\ op = "get_releases" /\ ret.kind = "returned") =>
        Len(ret.payload) <= count

\* C6 as stated: after a successful fetch every release has a non-blank name,
\* the tag_name when the API's name is missing, null or empty.
C6_NameFallsBackToTag ==
    (Fetched /\ ret.kind = "returned" /\ ret.status = 200) =>
        \A i \in 1 .. Len(ret.payload) :
            /\ Truthy(ret.payload[i].name)
            /\ ~Truthy(Get(repo[i], "name", None)) =>
                  ret.payload[i].name = ret.payload[i].tag_name

\* C6, amended: get_releases and get_all_releases hand the API's name on as it
\* is: a null name stays null and an empty name stays empty, a missing name
\* becomes the text "N/A"; the name is never taken from tag_name.
C6_NamePassedThrough ==
    (Fetched /\ ret.kind = "returned" /\ ret.status = 200) =>
        /\ Len(ret.payload) = Len(repo)
        /\ \A i \in 1 .. Len(ret.payload) :
              ret.payload[i].name =
                  IF "name" \in DOMAIN repo[i] THEN repo[i]["name"] ELSE S("N/A")

C6_Witness ==
    /\ Fetched /\ op = "get_releases" /\ ret.status = 200
    /\ \E i \in 1 .. Len(ret.payload) : ret.payload[i].name = S("N/A")
    /\ \E i \in 1 .. Len(ret.payload) : ret.payload[i].name = None
    /\ \E i \in 1 .. Len(ret.payload) : ret.payload[i].name = S("")

-----------------------------------------------------------------------------
(* Claims about ReleaseFinder.find_latest, checked under FinderSpec *)

\* The last call returned a release; Chosen is that release as it was handed in
Returned == call.outcome = "returned"
Chosen == call.input[call.idx]

\* The date a release is ranked by: published_at, else the date in its name
UsableDate(r) ==
    IF parse_date_iso(r).ok THEN parse_date_iso(r)
    ELSE IF IsStr(Get(r, "name", S(""))) THEN parse_date_from_name(Get(r, "name", S("")).s)
    ELSE NoDate

\* Whether the tag of a release is a version, and the version it is ranked by
Unparsable(r) == IsStr(Get(r, "tag_name", S(""))) /\ ~parse_version(Get(r, "tag_name", S("")).s).ok
TagVersion(r) ==
    IF IsStr(Get(r, "tag_name", S(""))) /\ parse_version(Get(r, "tag_name", S("")).s).ok
    THEN parse_version(Get(r, "tag_name", S("")).s)
    ELSE ZeroVersion

\* The same, and the version _parse_semver ranks a release by, over the
\* releases of the model, computed once
DateOf == [r \in Universe |-> UsableDate(r)] @@ << >>
VersionOf == [r \in Universe |-> TagVersion(r)] @@ << >>
NoVersion == [r \in Universe |-> Unparsable(r)] @@ << >>
SemverOf == [r \in Universe |-> parse_semver(r).v] @@ << >>

\* The releases of the last call's input that no pattern excluded, those of
\* them that have a usable date, and those of these the call's mode admits
NotExcluded == {i \in 1 .. Len(call.input) : ~ExcludedBy[call.patterns][call.input[i]]}
Candidates == {i \in NotExcluded : DateOf[call.input[i]].ok}
ModeCandidates ==
    {i \in Candidates : call.mode = "security" => SecurityOf[call.input[i]] = "True"}

\* Every release no pattern excluded has a text for its name and its tag, and
\* the candidates' dates all carry a time zone or all carry none
WellTyped ==
    \A i \in NotExcluded :
        IsStr(Get(call.input[i], "name", S(""))) /\ IsStr(Get(call.input[i], "tag_name", S("")))
SameZone ==
    \A i, j \in Candidates : DateOf[call.input[i]].aware = DateOf[call.input[j]].aware

\* C7: in the published mode find_latest returns a non-excluded release with a
\* usable date such that no other such release has a strictly later date, and
\* none with the same date has a greater version; it returns none only when
\* there is no such release, and it does return one when there is and the
\* names, tags and dates of the list can be compared.
C7_PublishedMax ==
    /\ (call.mode = "published" /\ Returned) =>
          /\ call.idx \in Candidates
          /\ \A j \in Candidates :
                /\ ~DateLess(DateOf[Chosen], DateOf[call.input[j]])
                /\ DateOf[call.input[j]] = DateOf[Chosen]
                      => ~VersionLess(VersionOf[Chosen], VersionOf[call.input[j]])
    /\ (call.mode = "published" /\ call.outcome = "none") => Candidates = {}
    /\ (call.mode = "published" /\ WellTyped /\ SameZone /\ Candidates # {}) => Returned

\* a later date has won over a greater version: v11.6.3 over v12.0.2
C7_Witness ==
    /\ call.mode = "published" /\ Returned
    /\ call.value.tag_name = S("v11.6.3")
    /\ \E j \in Candidates :
          /\ DateLess(DateOf[call.input[j]], DateOf[Chosen])
          /\ VersionLess(VersionOf[Chosen], VersionOf[call.input[j]])

\* The input of the last call with the candidates' dates replaced as d says
ReDated(d) ==
    [i \in 1 .. Len(call.input) |->
        IF i \in Candidates
        THEN WithDate(call.input[i], d[i])
        ELSE call.input[i]]

\* C8: in the version mode find_latest returns a candidate than which no
\* candidate has a greater version, and it returns the same release whatever
\* other valid dates the candidates carry.
C8_VersionMax ==
    /\ (call.mode = "version" /\ Returned) =>
          /\ call.idx \in Candidates
          /\ \A j \in Candidates : ~VersionLess(VersionOf[Chosen], VersionOf[call.input[j]])
          /\ \A d \in [Candidates -> AltDates] :
                /\ find_latest(ReDated(d), "version", call.patterns).outcome = "returned"
                /\ find_latest(ReDated(d), "version", call.patterns).idx = call.idx
    /\ (call.mode = "version" /\ WellTyped /\ Candidates # {}) => Returned

\* the greatest version has won over a later date
C8_Witness ==
    /\ call.mode = "version" /\ Returned
    /\ \E j \in Candidates : DateLess(DateOf[Chosen], DateOf[call.input[j]])

\* A release without a usable date whose version is greater than that of every
\* other release the mode could return
DatelessHighest(i) ==
    /\ i \in NotExcluded \ Candidates
    /\ IsStr(Get(call.input[i], "name", S("")))
    /\ call.mode = "security" => SecurityOf[call.input[i]] = "True"
    /\ \A j \in NotExcluded \ {i} :
          VersionLess(VersionOf[call.input[j]], VersionOf[call.input[i]])

HasKeyword(r, keywords) ==
    \E k \in 1 .. Len(keywords) :
        \/ /\ IsStr(Get(r, "name", S("")))
           /\ Contains(Lower(Get(r, "name", S("")).s), Lower(keywords[k]))
        \/ /\ IsStr(Get(r, "tag_name", S("")))
           /\ Contains(Lower(Get(r, "tag_name", S("")).s), Lower(keywords[k]))

\* The same over the releases and the keyword lists of the model, computed once
KeywordIn == [k \in KeywordLists |-> [r \in Universe |-> HasKeyword(r, k)] @@ << >>] @@ << >>

\* The keywords in force at the last call, and its input without the releases
\* that contain one
CallKeywords == IF call.patterns = << >> THEN << >> ELSE call.patterns[1]
Unmatched(r) == ~KeywordIn[CallKeywords][r]
WithoutMatches == SelectSeq(call.input, Unmatched)

\* C11: with a non-empty keyword list set, find_latest in every mode returns no
\* release whose name or tag contains a keyword, letter case apart, and its
\* result is that of a finder without rules over the list with those
\* releases deleted.
C11_ExclusionFilter ==
    (call.mode # "none" /\ call.patterns # << >>) =>
        /\ Returned => ~KeywordIn[CallKeywords][Chosen]
        /\ find_latest(WithoutMatches, call.mode, << >>).outcome = call.outcome
        /\ find_latest(WithoutMatches, call.mode, << >>).value = call.value

\* a keyword in capitals kept out the release that ranks highest without it
C11_Witness ==
    /\ call.patterns = << <<"BETA", "rc">> >> /\ Returned
    /\ find_latest(call.input, call.mode, << >>).outcome = "returned"
    /\ KeywordIn[CallKeywords][call.input[find_latest(call.input, call.mode, << >>).idx]]

\* Whether the tag or the name of a release contains "+security"
HasSecurityMark(r) ==
    \/ IsStr(Get(r, "tag_name", S(""))) /\ Contains(Get(r, "tag_name", S("")).s, "+security")
    \/ IsStr(Get(r, "name", S(""))) /\ Contains(Get(r, "name", S("")).s, "+security")

MarkOf == [r \in Universe |-> HasSecurityMark(r)] @@ << >>

\* The candidates of the last call that carry the mark
Eligible == {i \in Candidates : MarkOf[call.input[i]]}

C14_Immutable == call.mode # "none" => releases = call.input

\* The releases the finder holds that contain none of the keywords last given
NoneOfGiven(r) == ~KeywordIn[given.keywords][r]
WithoutGiven == SelectSeq(releases, NoneOfGiven)

\* C15: after any sequence of set_exclude_keywords calls the patterns in force
\* exclude exactly the releases that contain a keyword of the last call (none
\* when its list was empty), and find_latest in every mode gives what a finder
\* without rules gives over the list without those releases.
C15_RulesReplaced ==
    /\ \A r \in Universe : ExcludedBy[exclude_patterns][r] = KeywordIn[given.keywords][r]
    /\ given.keywords = << >> => \A r \in Universe : ~ExcludedBy[exclude_patterns][r]
    /\ \A mode \in Modes :
          /\ find_latest(releases, mode, exclude_patterns).outcome
                = find_latest(WithoutGiven, mode, << >>).outcome
          /\ find_latest(releases, mode, exclude_patterns).value
                = find_latest(WithoutGiven, mode, << >>).value

\* keywords were replaced by other keywords, and find_latest then returned a
\* release that contains one of the replaced keywords
C15_Witness ==
    /\ given.replaced /\ given.keywords = <<"nightly">>
    /\ call.patterns = <<given.keywords>> /\ Returned
    /\ KeywordIn[<<"BETA", "rc">>][Chosen]

-----------------------------------------------------------------------------
(* Claims about GitHubCache, checked under CacheSpec *)

\* The age, in ticks, that the file read last had at the read, and the
\* time to live in ticks
ReadAge == read.at - read.before.mtime
TimeToLive == gh_cache.cache_minutes * TicksPerMinute

\* C16: cached_data returns the payload stored for a key if and only if the
\* file exists, holds what write_cache stored, and its age in minutes is at
\* most cache_minutes; what it returns is the stored payload. An age equal to
\* cache_minutes is still valid.
C16_TimeToLive ==
    read.file # "none" =>
        /\ read.ret.kind = "hit" <=>
              (read.before # Absent /\ read.before.text = "json" /\ ReadAge <= TimeToLive)
        /\ read.ret.kind = "hit" => read.ret.data = read.before.data
        /\ (read.before.text = "json" /\ ReadAge = TimeToLive) => read.ret.kind = "hit"

\* a payload was returned from a file exactly cache_minutes old
C16_Witness ==
    /\ read.file # "none" /\ read.ret.kind = "hit"
    /\ read.before.data # << >>
    /\ ReadAge = TimeToLive

\* C17: when the file of a key exists, is within its time to live and holds
\* what cannot be deserialized as JSON, cached_data returns a miss without
\* raising and the file is deleted.
C17_CorruptionRecovered ==
    (/\ read.file # "none" /\ read.before # Absent
     /\ read.before.text # "json" /\ ReadAge <= TimeToLive)
        => (read.ret.kind = "miss" /\ read.after = Absent)

-----------------------------------------------------------------------------
(* Claims checked under ClientSpec *)

\* The operations that answer from the cache, and the entry of the running or
\* starting call
CachedOps == {"get_releases", "get_all_releases", "_release_assets"}

\* An entry within its time to live
ValidEntry(f) == Exists(f) /\ ~cache_valid(f)

\* A call that starts on a valid entry is over at once: it has sent no request
\* and returns (200, the entry's payload, None).
HitAnswersAtOnce ==
    (/\ pc = "idle" /\ pc' # "idle"
     /\ op' \in CachedOps
     /\ ValidEntry(CacheFile(op', asset_tag')))
    => (/\ pc' = "done"
        /\ sent' = 0
        /\ ret' = Triple(200, cache[CacheFile(op', asset_tag')].data, NoError))

\* The running call repeats the last one, which fetched with success, within
\* the time to live.
Repeated ==
    /\ pc = "done"
    /\ op \in CachedOps
    /\ prev.op = op /\ prev.tag = asset_tag
    /\ prev.fetched /\ prev.ret.kind = "returned"
    /\ clock - prev.at <= TimeToLive

SecondFromCache ==
    Repeated => (sent = 0 /\ ret = Triple(200, prev.ret.payload, NoError))

-----------------------------------------------------------------------------
(* Failure propagation, checked under Spec *)

\* _get_request has returned a status other than 200 to the running call
TransportFailed == pc = "done" /\ tret.kind = "returned" /\ tret.status # 200

\* C19: when _get_request returns a status other than 200, get_releases and
\* get_all_releases return that status, an empty list and _get_request's
\* error message; a 200 result comes from the cache or from a _get_request
\* that returned 200.
C19_FailurePropagated ==
    /\ TransportFailed => ret = Triple(tret.status, << >>, tret.error)
    /\ (pc = "done" /\ ret.kind = "returned" /\ ret.status = 200)
       => (tret = NoReturn \/ (tret.kind = "returned" /\ tret.status = 200))

\* get_all_releases hands on the 429 of a rate limit with its waiting time
C19_Witness ==
    /\ TransportFailed
    /\ op = "get_all_releases"
    /\ ret.status = TooManyRequests
    /\ ret.error = RateLimitError(3)
    /\ ret.payload = << >>

-----------------------------------------------------------------------------
(* get_checksum_asset, checked under AssetSpec *)

\* The first asset, in the listing's order, whose lower-cased name contains a
\* keyword; None when there is none.
FirstChecksumAsset(assets) ==
    LET found == {i \in 1 .. Len(assets) : AnyKeyword(Lower(assets[i].name.s))}
    IN  IF found = {} THEN None
        ELSE assets[CHOOSE i \in found : \A j \in found : i <= j]

\* The asset listing of the tag was 200: it is in the cache once the call is
\* over, fetched by this call or by an earlier one.
ListingOf(tg) == cache[CacheFile("_release_assets", tg)]

\* C20: get_checksum_asset(tag) returns the first asset whose lower-cased name
\* contains one of the keywords, and None, without raising, when there is none
\* or the listing is not 200; whatever the tag text, and whether or not
\* architecture() was called and with which arguments.
C20_FirstChecksumAsset ==
    (pc = "done" /\ op = "get_checksum_asset")
    => ret = Answer(IF ListingOf(asset_tag) = Absent THEN None
                    ELSE FirstChecksumAsset(ListingOf(asset_tag).data))

-----------------------------------------------------------------------------
(* The client without a cache, and the transport's results; checked under Spec *)

\* C25: a call on a client on which enable_cache was never called does not
\* fail: the data is fetched from the network and returned.
C25_WorksWithoutCache ==
    (pc = "done" /\ ~gh_cache.set) => (ret.kind = "returned" /\ sent > 0)

\* _get_request has left its loop on a response that was not the page asked
\* for, after at least one page had been collected
LaterPageFailed == Fetched /\ result # << >> /\ ~GoodResponse(resp)

\* C27: when the request for a later page fails or is rate-limited,
\* _get_request returns a status other than 200 and an empty payload, not the
\* items of the earlier pages; a 200 result holds the items of every page.
C27_AllOrNothing ==
    /\ LaterPageFailed => (tret.status # 200 /\ tret.payload = << >>)
    /\ (Fetched /\ tret.status = 200) => (GoodResponse(resp) /\ tret.payload = repo)

\* the second page met a rate limit after the first page was collected
C27_Witness ==
    /\ LaterPageFailed
    /\ url.page = 2
    /\ Len(result) = 1
    /\ RateLimited(resp)
    /\ tret.payload = << >>

\* C28: _get_request returns 200, 419 or 429; 429 exactly when the response
\* was a 403 with X-RateLimit-Remaining: 0. A server status 429 that outlasts
\* the retries is returned as 419.
C28_StatusCodes ==
    Fetched =>
        /\ tret.status \in {200, RequestFailed, TooManyRequests}
        /\ tret.status = TooManyRequests <=> RateLimited(resp)
        /\ (resp.io = "ok" /\ resp.status = 429) => tret.status = RequestFailed

\* the server answered 429 to every request of the retries
C28_Witness ==
    /\ Fetched
    /\ resp.io = "ok" /\ resp.status = 429
    /\ attempt = RetryTotal + 1
    /\ tret.status = RequestFailed

-----------------------------------------------------------------------------
(* find_latest and exceptions; checked under FinderSpec *)

\* C29: find_latest returns a release or None and never raises, whatever the
\* list and the mode.
C29_NeverRaises == call.mode # "none" => call.outcome \in {"returned", "none"}

-----------------------------------------------------------------------------
(* architecture(), checked under AssetSpec *)

\* C30: every call of architecture(system, architecture) succeeds, the first
\* and the later ones, and leaves system and architecture set.
C30_ArchitectureRepeatable ==
    (pc = "done" /\ op = "architecture") => (ret = Answer(None) /\ target.set)

-----------------------------------------------------------------------------
(* The cache after a failed fetch, checked under ClientSpec *)

\* The running call has fetched and returns a status other than 200.
FetchFailed ==
    /\ pc = "done"
    /\ op \in CachedOps
    /\ sent > 0
    /\ ret.kind = "returned" /\ ret.status # 200

\* C26 as stated: after a call whose fetch ended with a status other than 200
\* every cache file is exactly as it was before the call.
C26_CacheAsBefore == FetchFailed => cache = before

\* C26: a call whose fetch ended with a status other than 200 has written
\* nothing: the files of the other keys are as they were before the call, and
\* there is no file for the call's own key (an outdated one was removed when
\* the call looked it up), so the next call fetches again.
C26_NothingWritten ==
    FetchFailed =>
        /\ cache = [before EXCEPT ![CacheFile(op, asset_tag)] = Absent]
        /\ cached_data(CacheFile(op, asset_tag)) = Miss

\* the failed call found an outdated file of its key, and other files are there
C26_Witness ==
    /\ FetchFailed
    /\ before[CacheFile(op, asset_tag)] # Absent
    /\ cache[CacheFile(op, asset_tag)] = Absent
    /\ \E f \in DOMAIN cache : cache[f] # Absent

-----------------------------------------------------------------------------
(* checksum and download_checksum, checked under ChecksumSpec *)

\* checksum(repo, filename) has resolved against cached lines
Resolved == pc = "done" /\ op = "checksum" /\ ret.kind = "returned" /\ ret.lines # << >>

\* The line x contains repo, system and architecture as substrings, in
\* that order
InOrder(x) ==
    \E i \in 1 .. Len(x) + 1 :
        /\ StartsAt(x, i, args.repo)
        /\ \E j \in i + Len(args.repo) .. Len(x) + 1 :
              /\ StartsAt(x, j, target.system)
              /\ \E k \in j + Len(target.system) .. Len(x) + 1 :
                    StartsAt(x, k, target.architecture)

\* The cached lines that contain the three substrings in that order
InOrderLines == {n \in 1 .. Len(ret.lines) : InOrder(ret.lines[n])}

\* C21: when exactly one cached line contains repo, system and
\* architecture as substrings in that order, checksum returns the first
\* space-delimited token of that line; when several lines are cached and
\* none of them contains the three in that order, no hash is returned.
C21_ExtractsMatchingLine ==
    Resolved =>
        /\ \A n \in InOrderLines :
              InOrderLines = {n} => ret.checksum = S(FirstToken(ret.lines[n]))
        /\ (InOrderLines = {} /\ Len(ret.lines) > 1) => ret.checksum.t # "str"

\* C22: the checksum value that checksum returns is a single hash string
\* or none, never a list of lines.
C22_StringOrNone ==
    (pc = "done" /\ op = "checksum" /\ ret.kind = "returned") =>
        ret.checksum.t \in {"str", "none"}

\* No cached line matches the pattern and exactly one line is cached
SingleUnmatched ==
    /\ Resolved
    /\ Len(ret.lines) = 1
    /\ ~Search3(ret.lines[1], args.repo, target.system, target.architecture)

\* C23 as stated: when no cached line matches and exactly one line is
\* cached, checksum returns the first token of that line.
C23_SingleLineFallback ==
    SingleUnmatched => ret.checksum = S(FirstToken(ret.lines[1]))

\* C23: when no cached line matches, exactly one line is cached and that
\* line holds no space (a hash without a filename column), checksum returns
\* that line.
C23_BareHashFallback ==
    (SingleUnmatched /\ ~Contains(ret.lines[1], " ")) => ret.checksum = S(ret.lines[1])

\* a file of one bare hash was resolved
C23_Witness ==
    /\ SingleUnmatched
    /\ ~Contains(ret.lines[1], " ")
    /\ ret.checksum = S("abcd1234")

\* C24: after download_checksum(url, filename) has succeeded, the cache
\* entry that checksum reads for the same filename is the list of the body's
\* non-blank lines, in their order.
C24_DownloadThenResolve ==
    (pc = "done" /\ op = "download_checksum" /\ ret = Answer(None)) =>
        cached_data(cache_path(args.filename)) = Hit(Lines(args.body))

====
